---- MODULE Spec2Model ----
(***************************************************************************)
(* Model of flowsheet_builder.py: the Flowsheet class (a networkx DiGraph  *)
(* plus the notation text), the helper functions that decode the stored    *)
(* notation, mutate the graph and re-encode it, and the Streamlit button   *)
(* handlers that store the result in the session state.                    *)
(*                                                                         *)
(* A Python str is a sequence of one-character strings, so that the        *)
(* regular expression of the decoder, str.strip and str.split are computed *)
(* character by character.                                                 *)
(***************************************************************************)
EXTENDS Integers, Sequences, FiniteSets, TLC

\* ------------------------------------------------------------------ bounds

\* Most units a graph built by one operation may hold.
MaxUnits == 3

\* Most entries of st.session_state.connections.
MaxConns == 3

\* Most targets of one branch, and most sources of one join.
MaxTargets == 3

\* Most streams of a graph built through the Flowsheet methods.
MaxStreams == 3

\* ------------------------------------------------------- program constants

\* st.number_input("Number of Branch Outputs", min_value=2, max_value=5) and
\* the same limits of "Number of Join Inputs".
MinBranchCount == 2

MaxBranchCount == 5

\* ----------------------------------------------------------------- strings

EmptyStr == <<>>

IsSpace(c) == c = " "

IsParen(c) == c = "(" \/ c = ")"

RECURSIVE LStrip(_)
LStrip(s) ==
  IF s = <<>> THEN <<>>
  ELSE IF IsSpace(Head(s)) THEN LStrip(Tail(s)) ELSE s

RECURSIVE RStrip(_)
RStrip(s) ==
  IF s = <<>> THEN <<>>
  ELSE IF IsSpace(s[Len(s)]) THEN RStrip(SubSeq(s, 1, Len(s) - 1)) ELSE s

\* str.strip()
Strip(s) == RStrip(LStrip(s))

\* truth value of a str: non-empty
Truthy(s) == s # <<>>

\* c in s
Contains(s, c) == \E i \in 1..Len(s) : s[i] = c

\* str.split(sep) with a one-character separator: always at least one piece.
RECURSIVE SplitFrom(_, _, _)
SplitFrom(s, sep, acc) ==
  IF s = <<>> THEN <<acc>>
  ELSE IF Head(s) = sep THEN <<acc>> \o SplitFrom(Tail(s), sep, <<>>)
  ELSE SplitFrom(Tail(s), sep, Append(acc, Head(s)))

Split(s, sep) == SplitFrom(s, sep, <<>>)

\* [t.strip() for t in tags.split(",") if t.strip()]
RECURSIVE StripAll(_)
StripAll(pieces) ==
  IF pieces = <<>> THEN <<>>
  ELSE IF Truthy(Strip(Head(pieces)))
       THEN <<Strip(Head(pieces))>> \o StripAll(Tail(pieces))
       ELSE StripAll(Tail(pieces))

parse_tags(tags) == StripAll(Split(tags, ","))

\* {"he": [], "col": parsed_tags, "signal": []}, as a sequence of
\* <<category, items>> pairs in the dict's insertion order; {} is <<>>.
tag_dict(parsed) == << <<"he", <<>> >>, <<"col", parsed>>, <<"signal", <<>> >> >>

EmptyDict == <<>>

\* ------------------------------------------------ re.findall(r'\(([^()]+)\)')

\* First index >= i whose character is a parenthesis, Len(s) + 1 if none:
\* the end of the greedy run [^()]+ that starts at i.
RECURSIVE RunEnd(_, _)
RunEnd(s, i) ==
  IF i > Len(s) THEN i
  ELSE IF IsParen(s[i]) THEN i ELSE RunEnd(s, i + 1)

\* Non-overlapping matches, left to right, from index i; each match yields
\* its group, the text between the parentheses.
RECURSIVE FindAllFrom(_, _)
FindAllFrom(s, i) ==
  IF i > Len(s) THEN <<>>
  ELSE IF s[i] = "("
       THEN LET j == RunEnd(s, i + 1)
            IN IF j > i + 1 /\ j <= Len(s) /\ s[j] = ")"
               THEN <<SubSeq(s, i + 1, j - 1)>> \o FindAllFrom(s, j + 1)
               ELSE FindAllFrom(s, i + 1)
       ELSE FindAllFrom(s, i + 1)

findall(s) == FindAllFrom(s, 1)

\* ------------------------------------------------------------- nx.DiGraph

\* nodes: the node dict's keys in insertion order; edges: one
\* [from, to, tags] per adjacency entry, in insertion order.
EmptyGraph == [nodes |-> <<>>, edges |-> <<>>]

InSeq(x, seq) == \E i \in 1..Len(seq) : seq[i] = x

SeqSet(seq) == {seq[i] : i \in 1..Len(seq)}

\* DiGraph.add_node: a node already present is kept where it is.
add_node(G, n) ==
  IF InSeq(n, G.nodes) THEN G ELSE [G EXCEPT !.nodes = Append(@, n)]

HasEdge(G, u, v) == \E i \in 1..Len(G.edges) : G.edges[i].from = u /\ G.edges[i].to = v

\* DiGraph.add_edge: missing end nodes are created, u first; an edge already
\* present keeps its place and has its attributes updated.
add_edge(G, u, v, tags) ==
  LET G1 == add_node(add_node(G, u), v)
  IN IF HasEdge(G1, u, v)
     THEN [G1 EXCEPT !.edges =
             [i \in 1..Len(G1.edges) |->
                IF G1.edges[i].from = u /\ G1.edges[i].to = v
                THEN [G1.edges[i] EXCEPT !.tags = tags]
                ELSE G1.edges[i]]]
     ELSE [G1 EXCEPT !.edges = Append(@, [from |-> u, to |-> v, tags |-> tags])]

\* list(G.successors(n)): the targets of n's adjacency entries
RECURSIVE SuccFrom(_, _)
SuccFrom(edges, n) ==
  IF edges = <<>> THEN <<>>
  ELSE IF Head(edges).from = n
       THEN <<Head(edges).to>> \o SuccFrom(Tail(edges), n)
       ELSE SuccFrom(Tail(edges), n)

successors(G, n) == SuccFrom(G.edges, n)

in_degree(G, n) == Cardinality({i \in 1..Len(G.edges) : G.edges[i].to = n})

\* nx.topological_generations: indegree_map holds the remaining in-degree of
\* every node (0 stands for a node that is not, or no longer, in the map).
RECURSIVE GenChildren(_, _, _)
GenChildren(children, map, zero) ==
  IF children = <<>> THEN [map |-> map, zero |-> zero]
  ELSE LET c  == Head(children)
           m1 == [map EXCEPT ![c] = @ - 1]
       IN GenChildren(Tail(children), m1,
                      IF m1[c] = 0 THEN Append(zero, c) ELSE zero)

RECURSIVE GenNodes(_, _, _, _)
GenNodes(G, gen, map, zero) ==
  IF gen = <<>> THEN [map |-> map, zero |-> zero]
  ELSE LET r == GenChildren(successors(G, Head(gen)), map, zero)
       IN GenNodes(G, Tail(gen), r.map, r.zero)

RECURSIVE Generations(_, _, _)
Generations(G, zero_indegree, map) ==
  IF zero_indegree = <<>>
  THEN [order |-> <<>>, map |-> map]
  ELSE LET r    == GenNodes(G, zero_indegree, map, <<>>)
           rest == Generations(G, r.zero, r.map)
       IN [order |-> zero_indegree \o rest.order, map |-> rest.map]

\* list(nx.topological_sort(G)): the generations in turn; NetworkXUnfeasible
\* when a node is left with a positive in-degree (the graph has a cycle).
topological_sort(G) ==
  LET ns   == SeqSet(G.nodes)
      map0 == [n \in ns |-> in_degree(G, n)]
      zero == SelectSeq(G.nodes, LAMBDA n : map0[n] = 0)
      r    == Generations(G, zero, map0)
  IN [unfeasible |-> \E n \in ns : r.map[n] > 0, order |-> r.order]

\* -------------------------------------------------------------- Flowsheet

\* Flowsheet.__init__
Flowsheet == [state |-> EmptyGraph, sfiles |-> EmptyStr]

\* Flowsheet.add_unit
add_unit(fs, unique_name) == [fs EXCEPT !.state = add_node(@, unique_name)]

\* Flowsheet.add_stream (every caller passes tags)
add_stream(fs, from_unit, to_unit, tags) ==
  [fs EXCEPT !.state = add_edge(@, from_unit, to_unit, tags)]

RECURSIVE AddUnits(_, _)
AddUnits(fs, units) ==
  IF units = <<>> THEN fs ELSE AddUnits(add_unit(fs, Head(units)), Tail(units))

\* create_from_sfiles connecting each unit to the one that follows it
RECURSIVE ChainUnits(_, _)
ChainUnits(fs, units) ==
  IF Len(units) < 2 THEN fs
  ELSE ChainUnits(add_stream(fs, units[1], units[2], EmptyDict), Tail(units))

create_from_sfiles_chained(fs, sfiles_string) ==
  ChainUnits(AddUnits([state |-> EmptyGraph, sfiles |-> sfiles_string],
                      findall(sfiles_string)),
             findall(sfiles_string))

\* Flowsheet.create_from_sfiles: a fresh graph holding one node per match of
\* the pattern and no edge. Neither re.findall nor add_node raises on a str.
create_from_sfiles(fs, sfiles_string) ==
  AddUnits([state |-> EmptyGraph, sfiles |-> sfiles_string], findall(sfiles_string))

create_from_sfiles_raises(sfiles_string) == FALSE

\* nodes_in_order without the except clause: NetworkXUnfeasible propagates
nodes_in_order_nofallback(G) ==
  LET t == topological_sort(G)
  IN [raised |-> t.unfeasible, nodes |-> t.order]

\* nodes_in_order without the sort: always the insertion order
nodes_in_order_unsorted(G) == [raised |-> FALSE, nodes |-> G.nodes]

\* The try/except of convert_to_sfiles: the topological order, or the nodes
\* in insertion order when the sort raises NetworkXUnfeasible.

nodes_in_order(G) ==
  LET t == topological_sort(G)
  IN [raised |-> FALSE, nodes |-> IF t.unfeasible THEN G.nodes ELSE t.order]

RECURSIVE Bars(_)
Bars(n) == IF n <= 0 THEN <<>> ELSE <<"|">> \o Bars(n - 1)

\* branch_marker writing a "|" for the first successor too
branch_marker_per_successor(succ) ==
  IF Len(succ) > 1 THEN <<"[">> \o Bars(Len(succ)) \o <<"]">> ELSE <<>>

\* The marker written after a node: "[" + one "|" per successor after the
\* first + "]" when the node has more than one successor, nothing otherwise.

branch_marker(succ) ==
  IF Len(succ) > 1 THEN <<"[">> \o Bars(Len(succ) - 1) \o <<"]">> ELSE <<>>

RECURSIVE EncodeNodes(_, _)
EncodeNodes(G, nodes) ==
  IF nodes = <<>> THEN <<>>
  ELSE <<"(">> \o Head(nodes) \o <<")">>
       \o branch_marker(successors(G, Head(nodes)))
       \o EncodeNodes(G, Tail(nodes))

\* Flowsheet.convert_to_sfiles: [raised, fs], fs.sfiles being the text
\* returned.
convert_to_sfiles(fs) ==
  LET r == nodes_in_order(fs.state)
  IN IF r.raised
     THEN [raised |-> TRUE, fs |-> fs]
     ELSE [raised |-> FALSE, fs |-> [fs EXCEPT !.sfiles = EncodeNodes(fs.state, r.nodes)]]

\* ---------------------------------------------------------------- helpers

\* An entry's tags in st.session_state.connections: a str (the tag text) or
\* a dict (what the Create Branch and Create Join handlers pass).
StrTag(text) == [isstr |-> TRUE, text |-> text, dict |-> EmptyDict]

DictTag(d) == [isstr |-> FALSE, text |-> EmptyStr, dict |-> d]

Conn(f, t, tags) == [from |-> f, to |-> t, tags |-> tags]

\* The part of st.session_state the helpers use: the list under the key
\* "connections", which lines 284-285 create before any helper can run.
Session(conns) == [connections |-> conns]

\* if "connections" in st.session_state: st.session_state.connections.append(c)
SessAppend(sess, c) == [sess EXCEPT !.connections = Append(@, c)]

\* decode_current without the decoding: the helper starts from an empty graph
decode_current_skipped(current_sfiles) == Flowsheet

\* decode_current reading a branch marker back: a unit whose token is followed
\* by "[" is given a stream to every unit of the notation
decode_current_with_branches(current_sfiles) ==
  LET fs0   == IF Truthy(Strip(current_sfiles))
               THEN create_from_sfiles(Flowsheet, current_sfiles)
               ELSE Flowsheet
      units == fs0.state.nodes
      N     == Len(units)
      marked(u) ==
        LET t == <<"(">> \o u \o <<")", "[">>
        IN \E i \in 1..Len(current_sfiles) :
             /\ i + Len(t) - 1 <= Len(current_sfiles)
             /\ SubSeq(current_sfiles, i, i + Len(t) - 1) = t
      all   == [n \in 1..(N * N) |->
                  [from |-> units[((n - 1) \div N) + 1],
                   to   |-> units[((n - 1) % N) + 1],
                   tags |-> EmptyDict]]
  IN [fs0 EXCEPT !.state.edges = SelectSeq(all, LAMBDA e : marked(e.from))]

\* fs = Flowsheet(); if current_sfiles.strip(): fs.create_from_sfiles(...)
decode_current(current_sfiles) ==
  IF Truthy(Strip(current_sfiles))
  THEN create_from_sfiles(Flowsheet, current_sfiles)
  ELSE Flowsheet

\* What a helper hands back: whether it raised, the Flowsheet it built and
\* the connections list it leaves in the session state.
Outcome(conv, sess) ==
  [raised |-> conv.raised, fs |-> conv.fs, connections |-> sess.connections]

\* final_name without the test for a hyphen in unit_name
final_name_always_prefixed(unit_name, unit_type) ==
  IF Truthy(unit_type) THEN unit_type \o <<"-">> \o unit_name ELSE unit_name

final_name(unit_name, unit_type) ==
  IF Truthy(unit_type) /\ ~Contains(unit_name, "-")
  THEN unit_type \o <<"-">> \o unit_name
  ELSE unit_name

add_unit_to_sfiles(current_sfiles, unit_name, unit_type, sess) ==
  LET fs0 == decode_current(current_sfiles)
      fs1 == add_unit(fs0, final_name(unit_name, unit_type))
  IN Outcome(convert_to_sfiles(fs1), sess)

add_stream_to_sfiles(current_sfiles, from_unit, to_unit, tags, sess) ==
  LET fs0 == decode_current(current_sfiles)
      fs1 == add_stream(fs0, from_unit, to_unit, tag_dict(parse_tags(tags)))
  IN Outcome(convert_to_sfiles(fs1),
             SessAppend(sess, Conn(from_unit, to_unit, StrTag(tags))))

\* get_existing_units
get_existing_units(sfiles_string) ==
  IF ~Truthy(Strip(sfiles_string)) THEN <<>>
  ELSE create_from_sfiles(Flowsheet, sfiles_string).state.nodes

\* tags_list[i] if i < len(tags_list) else "", i counting from 1 here
TagAt(tags_list, i) == IF i <= Len(tags_list) THEN tags_list[i] ELSE StrTag(EmptyStr)

\* The loop of create_branch_in_sfiles over to_units[i..]
RECURSIVE BranchLoop(_, _, _, _, _, _)
BranchLoop(fs, sess, from_unit, to_units, tags_list, i) ==
  IF i > Len(to_units) THEN [fs |-> fs, sess |-> sess]
  ELSE BranchLoop(add_stream(fs, from_unit, to_units[i], EmptyDict),
                  SessAppend(sess, Conn(from_unit, to_units[i], TagAt(tags_list, i))),
                  from_unit, to_units, tags_list, i + 1)

create_branch_in_sfiles(current_sfiles, from_unit, to_units, tags_list, sess) ==
  LET r == BranchLoop(decode_current(current_sfiles), sess, from_unit, to_units, tags_list, 1)
  IN Outcome(convert_to_sfiles(r.fs), r.sess)

\* The loop of create_join_in_sfiles over from_units[i..]
RECURSIVE JoinLoop(_, _, _, _, _, _)
JoinLoop(fs, sess, from_units, to_unit, tags_list, i) ==
  IF i > Len(from_units) THEN [fs |-> fs, sess |-> sess]
  ELSE JoinLoop(add_stream(fs, from_units[i], to_unit, EmptyDict),
                SessAppend(sess, Conn(from_units[i], to_unit, TagAt(tags_list, i))),
                from_units, to_unit, tags_list, i + 1)

create_join_in_sfiles(current_sfiles, from_units, to_unit, tags_list, sess) ==
  LET r == JoinLoop(decode_current(current_sfiles), sess, from_units, to_unit, tags_list, 1)
  IN Outcome(convert_to_sfiles(r.fs), r.sess)

create_cycle_in_sfiles(current_sfiles, from_unit, to_unit, tags, sess) ==
  LET fs0 == decode_current(current_sfiles)
      fs1 == add_stream(fs0, from_unit, to_unit, EmptyDict)
  IN Outcome(convert_to_sfiles(fs1),
             SessAppend(sess, Conn(from_unit, to_unit, StrTag(tags))))

\* delete_connection removing the first matching entry only
delete_connection_first_only(sess, from_unit, to_unit) ==
  LET conns == sess.connections
      hits  == {i \in 1..Len(conns) : conns[i].from = from_unit /\ conns[i].to = to_unit}
  IN IF hits = {} THEN conns
     ELSE LET k == CHOOSE i \in hits : \A j \in hits : i <= j
          IN SubSeq(conns, 1, k - 1) \o SubSeq(conns, k + 1, Len(conns))

\* delete_connection: the entries whose pair differs, in their order
delete_connection(sess, from_unit, to_unit) ==
  SelectSeq(sess.connections, LAMBDA c : ~(c.from = from_unit /\ c.to = to_unit))

\* The graph render_flowsheet_graph draws: the decoded units, then one
\* add_stream per entry of the connections list.
RECURSIVE RenderLoop(_, _)
RenderLoop(fs, conns) ==
  IF conns = <<>> THEN fs
  ELSE LET c == Head(conns)
           d == IF c.tags.isstr THEN tag_dict(parse_tags(c.tags.text)) ELSE tag_dict(<<>>)
       IN RenderLoop(add_stream(fs, c.from, c.to, d), Tail(conns))

render_flowsheet_graph(sfiles_string, sess) ==
  RenderLoop(create_from_sfiles(Flowsheet, sfiles_string), sess.connections).state

\* ------------------------------------------------------------------ inputs

\* What is typed into "Unique Name" and "Unit Type".
UnitNames == { <<"1">>, <<"d", "-", "1">>, <<" ">> }

UnitTypes == { <<>>, <<"d">> }

\* What is typed into a tags field.
TagTexts == { <<"x">>, <<"y", ",", " ">> }

\* What is typed into "Import SFILES".
ImportTexts ==
  { <<>>, <<" ">>,
    <<"(", "1">>,
    <<"1", ")", "(", "d">>,
    <<"(", "(", "1", ")", ")">>,
    <<"(", "1", ")", "(", "d", "-", "1", ")">> }

\* The unit arguments of a direct call of a helper.
Idents == { <<"1">>, <<"2">>, <<"d", "-", "1">> }

\* The unit_name arguments of a direct call of add_unit_to_sfiles.
ApiUnitNames == { <<>>, <<"1">>, <<"2">>, <<"d", "-", "1">>, <<"(">>, <<"1", "]">> }

\* ------------------------------------------------------------------- state

VARIABLES
  sfiles_string,    \* st.session_state.sfiles_string
  connections,      \* st.session_state.connections
  notice,           \* the st.warning / st.error shown by the last handler
  call,             \* the last helper call: its name and arguments
  fs,               \* the Flowsheet that call built
  fs2               \* a second Flowsheet, decoded from the notation of fs

vars == <<sfiles_string, connections, notice, call, fs, fs2>>

NoUnits == <<>>

Call(name, current, conns, unit_name, unit_type, from_units, to_units, tags) ==
  [name |-> name, current |-> current, conns |-> conns,
   unit_name |-> unit_name, unit_type |-> unit_type,
   from_units |-> from_units, to_units |-> to_units, tags |-> tags,
   text |-> EmptyStr]

NoCall == Call("none", EmptyStr, <<>>, EmptyStr, EmptyStr, NoUnits, NoUnits, EmptyStr)

\* The script's first run: lines 275-285 set the session keys.
Init ==
  /\ sfiles_string = EmptyStr
  /\ connections = <<>>
  /\ notice = "none"
  /\ call = NoCall
  /\ fs = Flowsheet
  /\ fs2 = Flowsheet

session == Session(connections)

\* The graphs and lists explored stay within the bounds.
WithinBounds(out) ==
  /\ Len(out.fs.state.nodes) <= MaxUnits
  /\ Len(out.connections) <= MaxConns

\* new_sfiles = helper(...); st.session_state.sfiles_string = new_sfiles.
\* A helper that raised leaves the stored notation as it was.
Store(out, c) ==
  /\ WithinBounds(out)
  /\ connections' = out.connections
  /\ fs' = out.fs
  /\ call' = c
  /\ IF out.raised
     THEN /\ notice' = "exception"
          /\ UNCHANGED sfiles_string
     ELSE /\ notice' = "none"
          /\ sfiles_string' = out.fs.sfiles
  /\ UNCHANGED fs2

\* A handler that only shows a message: no helper is called.
Warn(msg) ==
  /\ notice' = msg
  /\ call' = NoCall
  /\ fs' = Flowsheet
  /\ UNCHANGED <<sfiles_string, connections, fs2>>

existing_units == get_existing_units(sfiles_string)

\* ----------------------------------------------------------- helper calls

CallAddUnit(unit_name, unit_type) ==
  Store(add_unit_to_sfiles(sfiles_string, unit_name, unit_type, session),
        Call("add_unit", sfiles_string, <<>>, unit_name, unit_type,
             NoUnits, NoUnits, EmptyStr))

CallAddStream(from_unit, to_unit, tags) ==
  Store(add_stream_to_sfiles(sfiles_string, from_unit, to_unit, tags, session),
        Call("add_stream", sfiles_string, <<>>, EmptyStr, EmptyStr,
             <<from_unit>>, <<to_unit>>, tags))

CallBranch(from_unit, to_units, tags_list) ==
  Store(create_branch_in_sfiles(sfiles_string, from_unit, to_units, tags_list, session),
        Call("create_branch", sfiles_string, <<>>, EmptyStr, EmptyStr,
             <<from_unit>>, to_units, EmptyStr))

CallJoin(from_units, to_unit, tags_list) ==
  Store(create_join_in_sfiles(sfiles_string, from_units, to_unit, tags_list, session),
        Call("create_join", sfiles_string, <<>>, EmptyStr, EmptyStr,
             from_units, <<to_unit>>, EmptyStr))

CallCycle(from_unit, to_unit, tags) ==
  Store(create_cycle_in_sfiles(sfiles_string, from_unit, to_unit, tags, session),
        Call("create_cycle", sfiles_string, <<>>, EmptyStr, EmptyStr,
             <<from_unit>>, <<to_unit>>, tags))

\* delete_connection(conn['from'], conn['to']); the call keeps the list it
\* was given.
CallDelete(from_unit, to_unit) ==
  /\ connections' = delete_connection(session, from_unit, to_unit)
  /\ call' = Call("delete_connection", sfiles_string, connections, EmptyStr, EmptyStr,
                  <<from_unit>>, <<to_unit>>, EmptyStr)
  /\ fs' = Flowsheet
  /\ notice' = "none"
  /\ UNCHANGED <<sfiles_string, fs2>>

\* The counts explored: at most MaxTargets, and no more than the connections
\* list can still take.
Counts ==
  {k \in MinBranchCount..MaxBranchCount :
     /\ k <= MaxTargets
     /\ Len(connections) + k <= MaxConns}

\* tags_list of the Create Branch and Create Join handlers: one dict per field
FormTags(k, tag) == [i \in 1..k |-> DictTag(tag_dict(parse_tags(tag)))]

\* tags_list=None: [""] * len(units)
DefaultTags(k) == [i \in 1..k |-> StrTag(EmptyStr)]

\* ---------------------------------------------------------- button handlers

AddUnitButton ==
  \E unit_name \in UnitNames, unit_type \in UnitTypes :
    IF Truthy(Strip(unit_name))
    THEN CallAddUnit(unit_name, unit_type)
    ELSE Warn("Please provide a unique name for the unit.")

AddStreamButton ==
  /\ existing_units # <<>>
  /\ \E from_unit \in SeqSet(existing_units), to_unit \in SeqSet(existing_units),
        tags \in TagTexts :
       IF from_unit # to_unit
       THEN CallAddStream(from_unit, to_unit, tags)
       ELSE Warn("From Unit and To Unit cannot be the same.")

DeleteButton ==
  /\ existing_units # <<>>
  /\ \E i \in 1..Len(connections) :
       CallDelete(connections[i].from, connections[i].to)

CreateBranchButton ==
  /\ Len(existing_units) >= 2
  /\ \E k \in Counts, branch_from \in SeqSet(existing_units) :
       \E branch_to_units \in [1..k -> SeqSet(existing_units)] :
         CallBranch(branch_from, branch_to_units, FormTags(k, EmptyStr))

CreateJoinButton ==
  /\ Len(existing_units) >= 2
  /\ \E k \in Counts, join_to \in SeqSet(existing_units) :
       \E join_from_units \in [1..k -> SeqSet(existing_units)] :
         CallJoin(join_from_units, join_to, FormTags(k, EmptyStr))

CreateRecycleButton ==
  /\ Len(existing_units) >= 2
  /\ \E recycle_from \in SeqSet(existing_units), recycle_to \in SeqSet(existing_units),
        recycle_tags \in TagTexts :
       IF recycle_from # recycle_to
       THEN CallCycle(recycle_from, recycle_to, recycle_tags)
       ELSE Warn("From Unit and To Unit cannot be the same.")

\* Import: the text replaces the stored notation unless decoding it raised.
ImportButton ==
  \E text \in ImportTexts :
    /\ Truthy(Strip(text))
    /\ call' = [NoCall EXCEPT !.name = "import", !.text = text]
    /\ IF create_from_sfiles_raises(text)
       THEN /\ notice' = "Invalid SFILES string"
            /\ fs' = Flowsheet
            /\ UNCHANGED sfiles_string
       ELSE /\ notice' = "none"
            /\ fs' = create_from_sfiles(Flowsheet, text)
            /\ sfiles_string' = text
    /\ UNCHANGED <<connections, fs2>>

Next ==
  \/ AddUnitButton
  \/ AddStreamButton
  \/ DeleteButton
  \/ CreateBranchButton
  \/ CreateJoinButton
  \/ CreateRecycleButton
  \/ ImportButton

Spec == Init /\ [][Next]_vars

\* ------------------------------------- the helpers called with any arguments

\* Notations the edit operations return, as the current notation of a call.
Notations ==
  { <<>>,
    <<"(", "1", ")">>,
    <<"(", "d", "-", "1", ")">>,
    <<"(", "1", ")", "(", "2", ")">>,
    <<"(", "2", ")", "[", "|", "]", "(", "1", ")">>,
    <<"(", "1", ")", "(", "(", ")">>,
    <<"(", "d", "-", "1", ")", "(", "2", ")", "(", "1", ")">>,
    <<"(", "1", ")", "[", "|", "|", "]", "(", "2", ")", "(", "d", "-", "1", ")">> }

\* One helper is applied, once, to a notation drawn from Notations.
InitApi ==
  /\ sfiles_string \in Notations
  /\ connections = <<>>
  /\ notice = "none"
  /\ call = NoCall
  /\ fs = Flowsheet
  /\ fs2 = Flowsheet

Fresh == call = NoCall

ApiAddUnit ==
  /\ Fresh
  /\ \E unit_name \in ApiUnitNames, unit_type \in UnitTypes :
       CallAddUnit(unit_name, unit_type)

ApiAddStream ==
  /\ Fresh
  /\ \E from_unit \in Idents, to_unit \in Idents, tags \in TagTexts \cup {EmptyStr} :
       CallAddStream(from_unit, to_unit, tags)

ApiBranch ==
  /\ Fresh
  /\ \E k \in Counts, from_unit \in Idents :
       \E to_units \in [1..k -> Idents] :
         CallBranch(from_unit, to_units, DefaultTags(k))

ApiJoin ==
  /\ Fresh
  /\ \E k \in Counts, to_unit \in Idents :
       \E from_units \in [1..k -> Idents] :
         CallJoin(from_units, to_unit, DefaultTags(k))

ApiCycle ==
  /\ Fresh
  /\ \E from_unit \in Idents, to_unit \in Idents, tags \in TagTexts :
       CallCycle(from_unit, to_unit, tags)

NextApi ==
  \/ ApiAddUnit
  \/ ApiAddStream
  \/ ApiBranch
  \/ ApiJoin
  \/ ApiCycle

SpecApi == InitApi /\ [][NextApi]_vars

\* ------------------------------------------- the Flowsheet class on its own

\* The unique_name arguments of Flowsheet.add_unit.
ClassNames == Idents \cup { <<"(">> }

\* A graph is built on a fresh Flowsheet by add_unit and add_stream, encoded
\* by convert_to_sfiles, and the text is decoded into a second Flowsheet.
Building == call.name \in {"none", "Flowsheet.add_unit", "Flowsheet.add_stream"}

\* Of a method call only the name is kept.
MethodCall(name) ==
  Call(name, EmptyStr, <<>>, EmptyStr, EmptyStr, NoUnits, NoUnits, EmptyStr)

MethodAddUnit ==
  /\ Building
  /\ \E unique_name \in ClassNames :
       /\ fs' = add_unit(fs, unique_name)
       /\ call' = MethodCall("Flowsheet.add_unit")
  /\ Len(fs'.state.nodes) <= MaxUnits
  /\ UNCHANGED <<sfiles_string, connections, notice, fs2>>

MethodAddStream ==
  /\ Building
  /\ \E from_unit \in Idents, to_unit \in Idents :
       /\ fs' = add_stream(fs, from_unit, to_unit, EmptyDict)
       /\ call' = MethodCall("Flowsheet.add_stream")
  /\ Len(fs'.state.nodes) <= MaxUnits
  /\ Len(fs'.state.edges) <= MaxStreams
  /\ UNCHANGED <<sfiles_string, connections, notice, fs2>>

MethodConvert ==
  /\ Building
  /\ LET r == convert_to_sfiles(fs)
     IN /\ fs' = r.fs
        /\ notice' = IF r.raised THEN "exception" ELSE "none"
  /\ call' = MethodCall("Flowsheet.convert_to_sfiles")
  /\ UNCHANGED <<sfiles_string, connections, fs2>>

MethodCreateFromSfiles ==
  /\ call.name = "Flowsheet.convert_to_sfiles"
  /\ notice = "none"
  /\ fs2' = create_from_sfiles(Flowsheet, fs.sfiles)
  /\ call' = MethodCall("Flowsheet.create_from_sfiles")
  /\ UNCHANGED <<sfiles_string, connections, notice, fs>>

NextClass ==
  \/ MethodAddUnit
  \/ MethodAddStream
  \/ MethodConvert
  \/ MethodCreateFromSfiles

SpecClass == Init /\ [][NextClass]_vars

\* ------------------------------------------------------------ the claims

\* A unit identifier of the data model: non-empty, no parenthesis or bracket.
NoParenOrBracket(n) == \A i \in 1..Len(n) : n[i] \notin {"(", ")", "[", "]"}

ValidIdent(n) == n # <<>> /\ NoParenOrBracket(n)

Token(n) == <<"(">> \o n \o <<")">>

\* The places of a notation where a pattern stands.
Positions(s, pat) ==
  {i \in 1..Len(s) : i + Len(pat) - 1 <= Len(s) /\ SubSeq(s, i, i + Len(pat) - 1) = pat}

TokenCount(s, n) == Cardinality(Positions(s, Token(n)))

\* Where the first token of n starts (0: nowhere).
TokenPos(s, n) ==
  IF Positions(s, Token(n)) = {} THEN 0
  ELSE CHOOSE i \in Positions(s, Token(n)) : \A j \in Positions(s, Token(n)) : i <= j

\* What follows the first token of n.
AfterToken(s, n) == SubSeq(s, TokenPos(s, n) + Len(Token(n)), Len(s))

StartsWith(s, pat) == Len(pat) <= Len(s) /\ SubSeq(s, 1, Len(pat)) = pat

UnitsOf(s) == SeqSet(get_existing_units(s))

Str_d1 == <<"d", "-", "1">>

\* C1: after add_unit_to_sfiles with a unit_name and a unit_type free of
\* parentheses and brackets that compose to a non-empty identifier, the
\* identifier is unit_type-unit_name when unit_type is non-empty and unit_name
\* has no hyphen, unit_name otherwise; the returned notation holds the token
\* of every unit of the current notation and of that identifier exactly once,
\* and lists no other unit.
C1_Expected ==
  IF call.unit_type # <<>> /\ ~(\E i \in 1..Len(call.unit_name) : call.unit_name[i] = "-")
  THEN call.unit_type \o <<"-">> \o call.unit_name
  ELSE call.unit_name

C1_AddUnit ==
  ( /\ call.name = "add_unit"
    /\ NoParenOrBracket(call.unit_name)
    /\ NoParenOrBracket(call.unit_type)
    /\ C1_Expected # <<>> )
  => /\ notice = "none"
     /\ InSeq(C1_Expected, fs.state.nodes)
     /\ \A u \in UnitsOf(call.current) \cup {C1_Expected} : TokenCount(sfiles_string, u) = 1
     /\ UnitsOf(sfiles_string) = UnitsOf(call.current) \cup {C1_Expected}

\* C1 witness: (d-1) is the current notation and "d-1" of type "d" is added:
\* the name is taken as it is and the unit is not listed twice.
C1_Witness ==
  /\ call.name = "add_unit"
  /\ call.current = Token(Str_d1)
  /\ call.unit_name = Str_d1
  /\ call.unit_type = <<"d">>
  /\ sfiles_string = Token(Str_d1)

\* C2: after add_stream_to_sfiles between two units of the current notation,
\* whatever the tag text, get_existing_units lists for the returned notation
\* the units it lists for the current one.
C2_AddStreamKeepsUnits ==
  ( /\ call.name = "add_stream"
    /\ call.from_units[1] \in UnitsOf(call.current)
    /\ call.to_units[1] \in UnitsOf(call.current) )
  => UnitsOf(sfiles_string) = UnitsOf(call.current)

\* C2 witness: a stream with tags "y, " from 1 to 2 in (d-1)(2)(1): the
\* order of the tokens changes, the units do not.
C2_Witness ==
  /\ call.name = "add_stream"
  /\ call.current = Token(Str_d1) \o Token(<<"2">>) \o Token(<<"1">>)
  /\ call.from_units = << <<"1">> >>
  /\ call.to_units = << <<"2">> >>
  /\ call.tags = <<"y", ",", " ">>
  /\ sfiles_string = Token(Str_d1) \o Token(<<"1">>) \o Token(<<"2">>)

\* The streams of a graph that leave u.
OutStreams(G, u) == {i \in 1..Len(G.edges) : G.edges[i].from = u}

\* The units a path of one or more streams leads to from u.
RECURSIVE ReachIn(_, _, _)
ReachIn(G, S, n) ==
  IF n = 0 THEN S
  ELSE ReachIn(G, S \cup {G.edges[i].to : i \in {j \in 1..Len(G.edges) : G.edges[j].from \in S}},
               n - 1)

ReachFrom(G, u) ==
  ReachIn(G, {G.edges[i].to : i \in OutStreams(G, u)}, Len(G.nodes))

Cyclic(G) == \E u \in SeqSet(G.nodes) : u \in ReachFrom(G, u)

AllValid(G) == \A u \in SeqSet(G.nodes) : ValidIdent(u)

Encoded == call.name = "Flowsheet.convert_to_sfiles"

\* "[", k times "|", "]"
MarkerWith(k) ==
  [i \in 1..(k + 2) |-> IF i = 1 THEN "[" ELSE IF i = k + 2 THEN "]" ELSE "|"]

\* C3: in the notation convert_to_sfiles returns for a graph of valid
\* identifiers, a unit with n > 1 outgoing streams (to distinct targets) is
\* followed at once by "[", n-1 separators "|" and "]", and a unit with at
\* most one outgoing stream is not followed by a marker.
C3_BranchMarker ==
  (Encoded /\ AllValid(fs.state))
  => \A u \in SeqSet(fs.state.nodes) :
       LET n    == Cardinality(OutStreams(fs.state, u))
           rest == AfterToken(fs.sfiles, u)
       IN /\ TokenCount(fs.sfiles, u) = 1
          /\ n > 1 => /\ StartsWith(rest, MarkerWith(n - 1))
                      /\ Cardinality({i \in 1..(n + 1) : rest[i] = "|"}) = n - 1
          /\ n <= 1 => ~StartsWith(rest, <<"[">>)

\* C3 witness: an encoded graph in which one unit has three outgoing streams
\* and its token is followed by [||], and another unit has none and is
\* followed by no marker.
C3_Witness ==
  /\ Encoded
  /\ AllValid(fs.state)
  /\ \E u \in SeqSet(fs.state.nodes), v \in SeqSet(fs.state.nodes) :
       /\ Cardinality(OutStreams(fs.state, u)) = 3
       /\ StartsWith(AfterToken(fs.sfiles, u), <<"[", "|", "|", "]">>)
       /\ OutStreams(fs.state, v) = {}
       /\ ~StartsWith(AfterToken(fs.sfiles, v), <<"[">>)

\* C4: in the notation convert_to_sfiles returns for an acyclic graph of
\* valid identifiers, every unit has its token, once, and for every stream
\* u -> v the token of u stands before the token of v.
C4_TopologicalOrder ==
  (Encoded /\ AllValid(fs.state) /\ ~Cyclic(fs.state))
  => /\ notice = "none"
     /\ \A u \in SeqSet(fs.state.nodes) : TokenCount(fs.sfiles, u) = 1
     /\ \A i \in 1..Len(fs.state.edges) :
          TokenPos(fs.sfiles, fs.state.edges[i].from) < TokenPos(fs.sfiles, fs.state.edges[i].to)

\* C4 witness: an encoded acyclic graph with a stream whose source was added
\* after its target, and a path of two streams.
C4_Witness ==
  /\ Encoded
  /\ AllValid(fs.state)
  /\ ~Cyclic(fs.state)
  /\ \E i \in 1..Len(fs.state.edges), j \in 1..Len(fs.state.edges) :
       /\ fs.state.edges[i].to = fs.state.edges[j].from
       /\ \E a \in 1..Len(fs.state.nodes), b \in 1..Len(fs.state.nodes) :
            /\ a > b
            /\ fs.state.nodes[a] = fs.state.edges[i].from
            /\ fs.state.nodes[b] = fs.state.edges[i].to
  /\ fs.sfiles # <<>>

\* C5: convert_to_sfiles does not raise on a graph with a cycle (a self-loop,
\* two units feeding each other, a longer loop), and the notation it returns
\* holds the token of every unit exactly once.
C5_CyclicNoCrash ==
  (Encoded /\ AllValid(fs.state) /\ Cyclic(fs.state))
  => /\ notice = "none"
     /\ \A u \in SeqSet(fs.state.nodes) : TokenCount(fs.sfiles, u) = 1

\* C5 witness: the encoded graph 1 -> 2 -> 1, both tokens in the notation.
C5_Witness ==
  /\ Encoded
  /\ fs.state.nodes = << <<"1">>, <<"2">> >>
  /\ HasEdge(fs.state, <<"1">>, <<"2">>)
  /\ HasEdge(fs.state, <<"2">>, <<"1">>)
  /\ notice = "none"
  /\ fs.sfiles = Token(<<"1">>) \o Token(<<"2">>)

Decoded == call.name = "Flowsheet.create_from_sfiles"

\* C6: the graph decoded from the notation of a graph of valid identifiers
\* has the units of that graph and no stream.
C6_RoundTrip ==
  (Decoded /\ AllValid(fs.state))
  => /\ SeqSet(fs2.state.nodes) = SeqSet(fs.state.nodes)
     /\ fs2.state.edges = <<>>

\* C6 witness: a graph with a branch (a marker in its notation) and a second
\* stream elsewhere, decoded into its three units and no stream.
C6_Witness ==
  /\ Decoded
  /\ AllValid(fs.state)
  /\ Len(fs.state.nodes) = 3
  /\ Len(fs.state.edges) = 3
  /\ \E u \in SeqSet(fs.state.nodes) : Cardinality(OutStreams(fs.state, u)) = 2
  /\ Contains(fs.sfiles, "[")
  /\ Len(fs2.state.nodes) = 3
  /\ fs2.state.edges = <<>>

Deleted == call.name = "delete_connection"

\* An entry of the pair delete_connection was called with.
OfPair(c) == c.from = call.from_units[1] /\ c.to = call.to_units[1]

\* a is b with some entries left out.
RECURSIVE IsSubseq(_, _)
IsSubseq(a, b) ==
  IF a = <<>> THEN TRUE
  ELSE IF b = <<>> THEN FALSE
  ELSE IF Head(a) = Head(b) THEN IsSubseq(Tail(a), Tail(b))
  ELSE IsSubseq(a, Tail(b))

\* C7: delete_connection(from, to) leaves no entry of the pair (from, to),
\* whatever its tags, keeps every other entry, those of (to, from) too, in
\* the order they had, and leaves the stored notation as it was.
C7_DeleteConnection ==
  Deleted
  => /\ \A i \in 1..Len(connections) : ~OfPair(connections[i])
     /\ Len(connections) = Cardinality({i \in 1..Len(call.conns) : ~OfPair(call.conns[i])})
     /\ IsSubseq(connections, call.conns)
     /\ sfiles_string = call.current

\* C7 witness: two entries of one pair with different tags and an entry of
\* the reversed pair; the delete of the pair leaves the third entry alone.
C7_Witness ==
  /\ Deleted
  /\ Len(call.conns) = 3
  /\ OfPair(call.conns[1])
  /\ OfPair(call.conns[2])
  /\ call.conns[1].tags # call.conns[2].tags
  /\ call.from_units # call.to_units
  /\ call.conns[3].from = call.to_units[1]
  /\ call.conns[3].to = call.from_units[1]
  /\ connections = <<call.conns[3]>>

StreamCalls == {"add_stream", "create_branch", "create_join", "create_cycle"}

\* C8: every stream asked of create_branch_in_sfiles or create_join_in_sfiles
\* is a stream of the graph it encodes: the source of a branch has as many
\* outgoing streams as targets were given, two when a target is given twice,
\* and the target of a join as many incoming streams as sources were given.
C8_ParallelStreamsKept ==
  /\ call.name = "create_branch"
     => Cardinality(OutStreams(fs.state, call.from_units[1])) = Len(call.to_units)
  /\ call.name = "create_join"
     => in_degree(fs.state, call.to_units[1]) = Len(call.from_units)

\* C9: the notation returned by add_stream_to_sfiles, create_branch_in_sfiles,
\* create_join_in_sfiles or create_cycle_in_sfiles lists the units of the
\* current notation and no others, whether or not the units named in the call
\* are among them.
C9_StreamsCreateNoUnits ==
  call.name \in StreamCalls => UnitsOf(sfiles_string) = UnitsOf(call.current)

\* Flat and balanced: every "(" is closed by the next parenthesis, and every
\* ")" closes one.
RECURSIVE FlatFrom(_, _)
FlatFrom(s, open) ==
  IF s = <<>> THEN ~open
  ELSE IF Head(s) = "(" THEN ~open /\ FlatFrom(Tail(s), TRUE)
  ELSE IF Head(s) = ")" THEN open /\ FlatFrom(Tail(s), FALSE)
  ELSE FlatFrom(Tail(s), open)

FlatBalanced(s) == FlatFrom(s, FALSE)

\* C10: an Import of non-blank text that is not flat and balanced is
\* reported as a validation error.
C10_ImportReportsMalformed ==
  (call.name = "import" /\ ~FlatBalanced(call.text))
  => notice = "Invalid SFILES string"

\* The helpers that decode the stored notation, change the graph and encode it.
EditCalls == {"add_unit", "add_stream", "create_branch", "create_join", "create_cycle"}

\* The streams a call asks for, as <<source, target>> pairs.
AskedStreams(c) ==
  IF c.name = "create_branch"
  THEN {<<c.from_units[1], c.to_units[i]>> : i \in 1..Len(c.to_units)}
  ELSE IF c.name = "create_join"
  THEN {<<c.from_units[i], c.to_units[1]>> : i \in 1..Len(c.from_units)}
  ELSE IF c.name \in {"add_stream", "create_cycle"}
  THEN {<<c.from_units[1], c.to_units[1]>>}
  ELSE {}

\* The targets a call asks u to be given a stream to.
AskedTargets(c, u) == {p[2] : p \in {q \in AskedStreams(c) : q[1] = u}}

\* The token of u stands in s and is followed at once by "[".
HasMarker(s, u) == TokenPos(s, u) > 0 /\ StartsWith(AfterToken(s, u), <<"[">>)

\* A handler run that called an edit operation: the operation was given the
\* notation stored before, and the notation it returned is stored.
C11_Given ==
  call'.name \in EditCalls
  => /\ call'.current = sfiles_string
     /\ sfiles_string' = fs'.sfiles

\* The last handler run called an edit operation on valid identifiers.
Edited == call.name \in EditCalls /\ AllValid(fs.state)

C11_Edited ==
  Edited
  => LET before == UnitsOf(call.current)
     IN /\ before \subseteq SeqSet(fs.state.nodes)
        /\ \A i \in 1..Len(fs.state.edges) :
             <<fs.state.edges[i].from, fs.state.edges[i].to>> \in AskedStreams(call)
        /\ \A u \in SeqSet(fs.state.nodes) :
             HasMarker(sfiles_string, u) => Cardinality(AskedTargets(call, u)) > 1
        /\ call.name \in {"add_unit", "add_stream", "create_cycle"}
             => ~Contains(sfiles_string, "[")
        /\ \A u \in before :
             (HasMarker(call.current, u) /\ Cardinality(AskedTargets(call, u)) <= 1)
             => ~HasMarker(sfiles_string, u)

\* C11: in every sequence of handler runs, an edit operation is given the
\* notation stored before it and its result is stored; on valid identifiers
\* it encodes a graph that holds the units of that notation and no stream but
\* those the operation itself asked for; so a unit is followed by a marker in
\* the notation stored afterwards only if the operation asked for streams
\* from it to more than one target, the notation stored after
\* add_unit_to_sfiles, add_stream_to_sfiles or create_cycle_in_sfiles has no
\* marker at all, and a marker of the notation stored before is gone unless
\* the operation branched from its unit again.
C11_StreamsDoNotSurvive == [][C11_Given]_vars /\ []C11_Edited

\* C11 witness: the stored notation had a marker after a unit (a branch had
\* been created from it), add_unit_to_sfiles was called on it, and the
\* notation stored now has the units and no marker.
C11_Witness ==
  /\ call.name = "add_unit"
  /\ \E u \in UnitsOf(call.current) : HasMarker(call.current, u)
  /\ UnitsOf(call.current) \subseteq UnitsOf(sfiles_string)
  /\ ~Contains(sfiles_string, "[")

====
